---- MODULE Spec2Model ----
(***************************************************************************)
(* Model of SentryProjectReconciler.Reconcile                              *)
(* (internal/controller/sentryproject_controller.go) together with the     *)
(* two collaborators it talks to: the Kubernetes API server holding the    *)
(* SentryProject record, and the Sentry service holding the remote         *)
(* project.  One reconciliation pass is a sequence of steps, one per call  *)
(* that leaves the process (Get, Status().Update, Update, Projects.Create, *)
(* Projects.Delete); the platform and the user act between the steps.      *)
(***************************************************************************)
EXTENDS Naturals, FiniteSets, Sequences, TLC

\* Number of reconciliation passes explored.
MaxPasses == 3

\* ------------------------------------------------------------------ names
SentryProjectFinalizer == "sentry.io.x42r/finalizer"
\* A finalizer owned by some other controller (e.g. foregroundDeletion).
ForeignFinalizer == "foreign/finalizer"

Created == "Created"
Pending == "Pending"
Failed == "Failed"
Deleted == "Deleted"
Conflict == "Conflict"
NoTeam == "NoTeam"
Forbiden == "Forbiden"
BadRequest == "BadRequest"

Ignore == "Ignore"
Update == "Update"
Fail == "Fail"
ConflictPolicy == {Ignore, Update, Fail}

\* What Projects.Create can answer: 201, an HTTP failure carrying a status
\* code, or a transport failure with no response at all.
CreateOutcomes == {"201", "409", "404", "403", "400", "500", "noresp"}
\* What Projects.Delete can answer.
DeleteOutcomes == {"204", "404", "403", "500", "noresp"}

\* err.Error() of a failed remote call.
ErrText(outcome) == "error " \o outcome

\* ------------------------------------------------------------------ state
VARIABLES
    cr,          \* the SentryProject record as persisted by the API server
    stale,       \* the record changed behind the pass's copy (resourceVersion differs)
    obj,         \* the pass's in-memory copy (var sentryProject)
    pc,          \* position of the running pass inside Reconcile
    result,      \* what the last finished pass returned: "none", "ok", "err"
    remote,      \* the Sentry project with spec.slug: "none", "own", "other"
    passes,      \* passes started so far
    fetched,     \* the record as the running pass fetched it
    createOutcome, \* answer to this pass's Projects.Create, "none" if not called
    deleteOutcome, \* answer to this pass's Projects.Delete, "none" if not called
    calls,       \* Sentry calls issued by this pass, in order
    storeFailed, \* some store write of this pass failed
    deleteConfirmed, \* some Projects.Delete returned success or 404
    known        \* some Projects.Create returned success or 409 and no delete was confirmed since

vars == <<cr, stale, obj, pc, result, remote, passes, fetched, createOutcome,
          deleteOutcome, calls, storeFailed, deleteConfirmed, known>>

passGhosts == <<fetched, createOutcome, deleteOutcome, calls>>

NewRecord(policy, fins) ==
    [exists |-> TRUE, state |-> "", message |-> "", finalizers |-> fins,
     deletion |-> FALSE, policy |-> policy]

Init ==
    /\ \E policy \in ConflictPolicy, fins \in {<<>>, <<ForeignFinalizer>>} :
          cr = NewRecord(policy, fins)
    /\ stale = FALSE
    /\ obj = cr
    /\ pc = "idle"
    /\ result = "none"
    /\ remote \in {"none", "other"}
    /\ passes = 0
    /\ fetched = cr
    /\ createOutcome = "none"
    /\ deleteOutcome = "none"
    /\ calls = <<>>
    /\ storeFailed = FALSE
    /\ deleteConfirmed = FALSE
    /\ known = FALSE

\* ------------------------------------------------------ finalizer helpers
\* ObjectMeta.Finalizers is a slice: order and multiplicity are kept.
containsString(slice, s) == \E i \in 1..Len(slice) : slice[i] = s
removeString(slice, s) == SelectSeq(slice, LAMBDA x : x # s)

\* ------------------------------------------------------------ API server
\* The platform erases a record whose deletion timestamp is set as soon as
\* its finalizer set is empty.
Settle(rec) ==
    IF rec.deletion /\ rec.finalizers = <<>> THEN [rec EXCEPT !.exists = FALSE] ELSE rec

\* A write is accepted only for a live record the pass has an up-to-date
\* copy of; otherwise it answers NotFound or Conflict.
WriteAccepted == cr.exists /\ ~stale

\* r.Status().Update: only the status sub-record is taken from the copy.
StatusWritten(o) == [cr EXCEPT !.state = o.state, !.message = o.message]
\* r.Update: the status sub-record is ignored, metadata is taken from the copy.
MetaWritten(o) == Settle([cr EXCEPT !.finalizers = o.finalizers])

\* Return from Reconcile.
Return(res) ==
    /\ pc' = "idle"
    /\ result' = res

\* Variant: the error of the status write is dropped and the pass goes on.
UpdateStatusIgnoreErr(state, message, next) ==
    LET o == [obj EXCEPT !.state = state, !.message = message] IN
    \E ok \in BOOLEAN :
        /\ pc' = next
        /\ UNCHANGED result
        /\ IF ok /\ WriteAccepted
           THEN /\ cr' = StatusWritten(o)
                /\ obj' = cr'
                /\ UNCHANGED storeFailed
           ELSE /\ obj' = o
                /\ storeFailed' = TRUE
                /\ UNCHANGED cr

\* UpdateStatus followed by the caller's `if err != nil { return }`.
UpdateStatus(state, message, next) ==
    LET o == [obj EXCEPT !.state = state, !.message = message] IN
    \E ok \in BOOLEAN :
        IF ok /\ WriteAccepted
        THEN /\ cr' = StatusWritten(o)
             /\ obj' = cr'
             /\ pc' = next
             /\ UNCHANGED <<result, storeFailed>>
        ELSE /\ obj' = o
             /\ storeFailed' = TRUE
             /\ Return("err")
             /\ UNCHANGED cr

\* UpdateFinalizer / RemoveFinalizer: r.Update of the copy o, then the
\* caller's `if err != nil { return }` and the final `return ctrl.Result{}, nil`.
UpdateMeta(o) ==
    \E ok \in BOOLEAN :
        IF ok /\ WriteAccepted
        THEN /\ cr' = MetaWritten(o)
             /\ obj' = cr'
             /\ Return("ok")
             /\ UNCHANGED storeFailed
        ELSE /\ obj' = o
             /\ storeFailed' = TRUE
             /\ Return("err")
             /\ UNCHANGED cr

\* ------------------------------------------------------- Sentry service
\* Answers Projects.Create can give in the present remote state, with the
\* remote state each leaves behind.  A call that got no response may or
\* may not have been applied.
CreateAnswers ==
    IF remote = "none"
    THEN {<<"201", "own">>, <<"noresp", "own">>, <<"noresp", "none">>}
         \cup {<<c, "none">> : c \in {"404", "403", "400", "500"}}
    ELSE {<<c, remote>> : c \in {"409", "404", "403", "400", "500", "noresp"}}

DeleteAnswers ==
    IF remote = "none"
    THEN {<<c, "none">> : c \in {"404", "403", "500", "noresp"}}
    ELSE {<<"204", "none">>, <<"noresp", "none">>, <<"noresp", remote>>}
         \cup {<<c, remote>> : c \in {"403", "500"}}

\* ------------------------------------------------- Reconcile's decisions
\* Variant: phase Created is retried as well.
NeedsCreateAlsoCreated(state) == state = Pending \/ state = Failed \/ state = Created

\* Line 65: the phases in which the pass calls Projects.Create.
NeedsCreate(state) == state = Pending \/ state = Failed

\* Lines 69-80: phase recorded for a failed create.
ClassifyCreateError(outcome) ==
    CASE outcome = "409" -> Conflict
      [] outcome = "404" -> NoTeam
      [] outcome = "403" -> Forbiden
      [] outcome = "400" -> BadRequest
      [] OTHER -> Failed

\* Variant: the pass leaves the failure phase in place and goes on to the finalizer.
AfterCreateErrorKeep == "l94"

\* Lines 81-90: where the pass continues once the failure phase is written.
AfterCreateError == "l90"

\* Variant: every delete error is swallowed.
DeleteReturnsNilAlways(outcome) == TRUE

\* Variant: not-found is surfaced like any other error.
DeleteReturnsNilStrict(outcome) == outcome = "204"

\* Lines 122-130: DeleteSentryProject returns nil.
DeleteReturnsNil(outcome) == outcome = "204" \/ outcome = "404"

\* Line 94: the branch that adds the finalizer.
AddsFinalizer(o) == ~o.deletion

\* Line 99: the delete branch calls Projects.Delete.
NeedsDelete(state) == state # Deleted

\* --------------------------------------------------------------- the pass
\* Variant: NotFound is returned to the caller like any other Get error.
FetchSurfacesNotFound ==
    /\ pc = "idle"
    /\ passes < MaxPasses
    /\ passes' = passes + 1
    /\ stale' = FALSE
    /\ fetched' = cr
    /\ createOutcome' = "none"
    /\ deleteOutcome' = "none"
    /\ calls' = <<>>
    /\ storeFailed' = FALSE
    /\ \E ok \in BOOLEAN :
          IF cr.exists /\ ok THEN /\ obj' = cr
                                 /\ pc' = "l59"
                                 /\ UNCHANGED result
          ELSE /\ Return("err")
               /\ UNCHANGED obj
    /\ UNCHANGED <<cr, remote, deleteConfirmed, known>>

\* Line 55: r.Get.  NotFound ends the pass without error, any other error
\* ends it with that error.
Fetch ==
    /\ pc = "idle"
    /\ passes < MaxPasses
    /\ passes' = passes + 1
    /\ stale' = FALSE
    /\ fetched' = cr
    /\ createOutcome' = "none"
    /\ deleteOutcome' = "none"
    /\ calls' = <<>>
    /\ storeFailed' = FALSE
    /\ \E ok \in BOOLEAN :
          IF ~cr.exists THEN /\ Return("ok")
                             /\ UNCHANGED obj
          ELSE IF ok THEN /\ obj' = cr
                          /\ pc' = "l59"
                          /\ UNCHANGED result
          ELSE /\ Return("err")
               /\ UNCHANGED obj
    /\ UNCHANGED <<cr, remote, deleteConfirmed, known>>

\* Lines 59-64.
SetPending ==
    /\ pc = "l59"
    /\ IF obj.state = ""
       THEN UpdateStatus(Pending, "", "l65")
       ELSE /\ pc' = "l65"
            /\ UNCHANGED <<cr, obj, result, storeFailed>>
    /\ UNCHANGED <<stale, remote, passes, passGhosts, deleteConfirmed, known>>

\* Lines 65-68: CreateSentryProject, or nothing in any other phase.
CreateProject ==
    /\ pc = "l65"
    /\ IF NeedsCreate(obj.state)
       THEN \E a \in CreateAnswers :
              /\ remote' = a[2]
              /\ createOutcome' = a[1]
              /\ calls' = Append(calls, "create")
              /\ known' = (known \/ a[1] \in {"201", "409"})
              /\ pc' = IF a[1] = "201" THEN "l90" ELSE "l81"
       ELSE /\ pc' = "l94"
            /\ UNCHANGED <<remote, createOutcome, calls, known>>
    /\ UNCHANGED <<cr, stale, obj, result, passes, fetched, deleteOutcome,
                   storeFailed, deleteConfirmed>>

\* Lines 69-84: classify the failure and write it to the status.
RecordCreateError ==
    /\ pc = "l81"
    /\ UpdateStatus(ClassifyCreateError(createOutcome), ErrText(createOutcome),
                    AfterCreateError)
    /\ UNCHANGED <<stale, remote, passes, passGhosts, deleteConfirmed, known>>

\* Lines 90-92.
SetCreated ==
    /\ pc = "l90"
    /\ UpdateStatus(Created, "", "l94")
    /\ UNCHANGED <<stale, remote, passes, passGhosts, deleteConfirmed, known>>

\* Variant: the marker is appended and written without the containment check.
EnsureFinalizerAlwaysAppends ==
    /\ pc = "l94"
    /\ AddsFinalizer(obj)
    /\ UpdateMeta([obj EXCEPT !.finalizers = Append(@, SentryProjectFinalizer)])
    /\ UNCHANGED <<stale, remote, passes, passGhosts, deleteConfirmed, known>>

\* Lines 94-97 and 111: UpdateFinalizer.
EnsureFinalizer ==
    /\ pc = "l94"
    /\ AddsFinalizer(obj)
    /\ IF ~containsString(obj.finalizers, SentryProjectFinalizer)
       THEN UpdateMeta([obj EXCEPT !.finalizers = Append(@, SentryProjectFinalizer)])
       ELSE /\ Return("ok")
            /\ UNCHANGED <<cr, obj, storeFailed>>
    /\ UNCHANGED <<stale, remote, passes, passGhosts, deleteConfirmed, known>>

\* Lines 98-102: DeleteSentryProject, skipped when the phase is Deleted.
DeleteProject ==
    /\ pc = "l94"
    /\ ~AddsFinalizer(obj)
    /\ IF NeedsDelete(obj.state)
       THEN \E a \in DeleteAnswers :
              /\ remote' = a[2]
              /\ deleteOutcome' = a[1]
              /\ calls' = Append(calls, "delete")
              /\ deleteConfirmed' = (deleteConfirmed \/ a[1] \in {"204", "404"})
              /\ known' = (known /\ a[1] \notin {"204", "404"})
              /\ IF DeleteReturnsNil(a[1])
                 THEN /\ pc' = "l103"
                      /\ UNCHANGED result
                 ELSE Return("err")
       ELSE /\ pc' = "l107"
            /\ UNCHANGED <<remote, deleteOutcome, calls, result, deleteConfirmed, known>>
    /\ UNCHANGED <<cr, stale, obj, passes, fetched, createOutcome, storeFailed>>

\* Lines 103-105.
SetDeleted ==
    /\ pc = "l103"
    /\ UpdateStatus(Deleted, "", "l107")
    /\ UNCHANGED <<stale, remote, passes, passGhosts, deleteConfirmed, known>>

\* Lines 107-111: RemoveFinalizer.
ReleaseFinalizer ==
    /\ pc = "l107"
    /\ IF containsString(obj.finalizers, SentryProjectFinalizer)
       THEN UpdateMeta([obj EXCEPT !.finalizers = removeString(@, SentryProjectFinalizer)])
       ELSE /\ Return("ok")
            /\ UNCHANGED <<cr, obj, storeFailed>>
    /\ UNCHANGED <<stale, remote, passes, passGhosts, deleteConfirmed, known>>

\* ------------------------------------------------------------ environment
\* A user deletes the record: the platform sets the deletion timestamp and
\* erases the record at once when no finalizer guards it.
UserDelete ==
    /\ cr.exists
    /\ ~cr.deletion
    /\ cr' = Settle([cr EXCEPT !.deletion = TRUE])
    /\ stale' = TRUE
    /\ UNCHANGED <<obj, pc, result, remote, passes, passGhosts, storeFailed,
                   deleteConfirmed, known>>

\* The other controller finishes its cleanup and drops its finalizer.
ForeignRelease ==
    /\ cr.exists
    /\ cr.deletion
    /\ containsString(cr.finalizers, ForeignFinalizer)
    /\ cr' = Settle([cr EXCEPT !.finalizers = removeString(@, ForeignFinalizer)])
    /\ stale' = TRUE
    /\ UNCHANGED <<obj, pc, result, remote, passes, passGhosts, storeFailed,
                   deleteConfirmed, known>>

Next ==
    \/ Fetch
    \/ SetPending
    \/ CreateProject
    \/ RecordCreateError
    \/ SetCreated
    \/ EnsureFinalizer
    \/ DeleteProject
    \/ SetDeleted
    \/ ReleaseFinalizer
    \/ UserDelete
    \/ ForeignRelease

Spec == Init /\ [][Next]_vars

\* ------------------------------------------------- delivery and fairness
\* The controller built by SetupWithManager delivers a pass when the record
\* changed since the last fetch (the pass's own writes included) or when the
\* last pass did not return success.
Due == result # "ok" \/ cr # fetched

\* Line 55 under that delivery rule; the pass count saturates at MaxPasses.
LiveFetch ==
    /\ pc = "idle"
    /\ Due
    /\ passes' = IF passes < MaxPasses THEN passes + 1 ELSE passes
    /\ stale' = FALSE
    /\ fetched' = cr
    /\ createOutcome' = "none"
    /\ deleteOutcome' = "none"
    /\ calls' = <<>>
    /\ storeFailed' = FALSE
    /\ \E ok \in BOOLEAN :
          IF ~cr.exists THEN /\ Return("ok")
                             /\ UNCHANGED obj
          ELSE IF ok THEN /\ obj' = cr
                          /\ pc' = "l59"
                          /\ UNCHANGED result
          ELSE /\ Return("err")
               /\ UNCHANGED obj
    /\ UNCHANGED <<cr, remote, deleteConfirmed, known>>

\* From pass number MaxPasses on the collaborators behave: Get answers, a
\* store write fails only when the record is gone or changed behind the
\* pass, and Projects.Delete answers success or 404.
Behaved ==
    \/ passes' < MaxPasses
    \/ /\ (storeFailed' /\ ~storeFailed) => ~WriteAccepted
       /\ deleteOutcome' \in {deleteOutcome, "none", "204", "404"}
       /\ (pc = "idle" /\ pc' = "idle" /\ cr.exists) => result' # "err"

PassStep ==
    \/ LiveFetch
    \/ SetPending
    \/ CreateProject
    \/ RecordCreateError
    \/ SetCreated
    \/ EnsureFinalizer
    \/ DeleteProject
    \/ SetDeleted
    \/ ReleaseFinalizer

LiveNext ==
    \/ LiveFetch /\ Behaved
    \/ SetPending /\ Behaved
    \/ CreateProject /\ Behaved
    \/ RecordCreateError /\ Behaved
    \/ SetCreated /\ Behaved
    \/ EnsureFinalizer /\ Behaved
    \/ DeleteProject /\ Behaved
    \/ SetDeleted /\ Behaved
    \/ ReleaseFinalizer /\ Behaved
    \/ UserDelete
    \/ ForeignRelease

\* The reconciler keeps running: a step of the pass, or the delivery of a
\* due pass, is not postponed forever.
LiveSpec == Init /\ [][LiveNext]_vars /\ WF_vars(PassStep /\ Behaved)

TypeOK ==
    /\ cr.state \in {"", Created, Pending, Failed, Deleted, Conflict, NoTeam, Forbiden, BadRequest}
    /\ \A i \in 1..Len(cr.finalizers) : cr.finalizers[i] \in {SentryProjectFinalizer, ForeignFinalizer}
    /\ pc \in {"idle", "l59", "l65", "l81", "l90", "l94", "l103", "l107"}
    /\ result \in {"none", "ok", "err"}
    /\ remote \in {"none", "own", "other"}
    /\ passes \in 0..MaxPasses
    /\ createOutcome \in CreateOutcomes \cup {"none"}
    /\ deleteOutcome \in DeleteOutcomes \cup {"none"}

\* ------------------------------------------------------------ properties
Called(c) == \E i \in 1..Len(calls) : calls[i] = c
HasMarker(rec) == containsString(rec.finalizers, SentryProjectFinalizer)
PassEnded == pc = "idle" /\ passes > 0

\* C1: while a remote project created by the reconciler exists and its
\* deletion is not confirmed, the record exists and carries the finalizer
\* marker.
C1_MarkerGuardsOwnProject ==
    remote = "own" => (cr.exists /\ HasMarker(cr))

\* C2: a remote create call is issued only while the persisted finalizer
\* set holds the marker.
C2_CreateAfterMarkerPersisted ==
    [][(Len(calls') = Len(calls) + 1 /\ calls'[Len(calls')] = "create")
          => HasMarker(cr)]_vars

\* C3: every removal of the marker from the persisted record happens with
\* deletion requested and after some remote delete returned success or 404.
C3_MarkerRemovedOnlyAfterConfirmedDelete ==
    [][(HasMarker(cr) /\ ~HasMarker(cr')) => (cr.deletion /\ deleteConfirmed)]_vars

C3_Witness ==
    /\ PassEnded
    /\ result = "ok"
    /\ HasMarker(fetched)
    /\ ~HasMarker(cr)
    /\ deleteConfirmed

\* C4: the persisted phase is Created only if some create call was answered
\* with success or conflict, i.e. the reconciler knows of a remote project
\* (states after a confirmed delete set aside).
C4_CreatedOnlyIfKnown ==
    (cr.state = Created /\ ~deleteConfirmed) => known

\* C5: after a pass whose create call failed with 404, 403, 400 or another
\* error and whose store writes succeeded, the persisted status is the
\* failure phase of the classification table with the error text as message.
C5_FailurePhasePersisted ==
    (/\ PassEnded
     /\ result = "ok"
     /\ ~fetched.deletion
     /\ createOutcome \in {"404", "403", "400", "500", "noresp"})
    => /\ cr.state = (CASE createOutcome = "404" -> "NoTeam"
                        [] createOutcome = "403" -> "Forbiden"
                        [] createOutcome = "400" -> "BadRequest"
                        [] OTHER -> "Failed")
       /\ cr.message = ErrText(createOutcome)

\* C6: a pass that fetched the record in a phase other than Created or
\* Deleted with no deletion requested has issued a create call by the time
\* it reaches the finalizer step.
C6_FailurePhaseRetriesCreate ==
    (/\ pc = "l94"
     /\ ~fetched.deletion
     /\ fetched.state \notin {Created, Deleted})
    => Called("create")

\* C7: a pass whose create call returned 409 under conflictPolicy Fail
\* ends with phase Failed persisted.
C7_ConflictFailPersistsFailed ==
    (/\ PassEnded
     /\ result = "ok"
     /\ ~fetched.deletion
     /\ createOutcome = "409"
     /\ cr.policy = Fail)
    => cr.state = Failed

\* C8: a pass whose create call returned 409 under conflictPolicy Ignore
\* ends with phase Created persisted and has issued no update call.
C8_ConflictIgnorePersistsCreated ==
    (/\ PassEnded
     /\ result = "ok"
     /\ ~fetched.deletion
     /\ createOutcome = "409"
     /\ cr.policy = Ignore)
    => (cr.state = Created /\ ~Called("update"))

C8_Witness ==
    /\ PassEnded
    /\ result = "ok"
    /\ ~fetched.deletion
    /\ createOutcome = "409"
    /\ cr.policy = Ignore
    /\ cr.state = Created
    /\ calls = <<"create">>

\* C9: a pass that fetched the record with deletion requested issues no
\* remote create call.
C9_NoCreateWhenDeletionRequested ==
    fetched.deletion => ~Called("create")

\* C10: a pass with deletion requested and phase not Deleted, whose delete
\* call returned success or 404 and whose store writes all succeeded, ends
\* with result success, phase Deleted persisted and the marker removed.
C10_DeleteNotFoundIsSuccess ==
    (/\ PassEnded
     /\ fetched.deletion
     /\ fetched.state # Deleted
     /\ deleteOutcome \in {"204", "404"}
     /\ ~storeFailed)
    => (result = "ok" /\ cr.state = Deleted /\ ~HasMarker(cr))

C10_Witness ==
    /\ PassEnded
    /\ fetched.deletion
    /\ fetched.state # Deleted
    /\ HasMarker(fetched)
    /\ deleteOutcome = "404"
    /\ ~storeFailed
    /\ result = "ok"
    /\ cr.state = Deleted
    /\ ~HasMarker(cr)

\* C11: a pass whose delete call failed with an error other than 404
\* returns failure, leaves the phase other than Deleted and keeps the
\* marker; and every pass that fetched a deleting record in a phase other
\* than Deleted has issued the delete call once it is past line 102.
C11_DeleteErrorSurfacedAndRetried ==
    /\ (PassEnded /\ deleteOutcome \in {"403", "500", "noresp"})
          => /\ result = "err"
             /\ cr.state # Deleted
             /\ cr.state = obj.state
             /\ (HasMarker(fetched) => HasMarker(cr))
    /\ (pc \in {"l103", "l107"} /\ fetched.deletion /\ fetched.state # Deleted)
          => Called("delete")

C11_Witness ==
    /\ PassEnded
    /\ passes >= 2
    /\ deleteOutcome = "500"
    /\ result = "err"
    /\ HasMarker(fetched)
    /\ HasMarker(cr)
    /\ cr.state = Created

\* C12: a pass whose fetch reports not-found returns success, issues no
\* remote call and attempts no store write.
C12_NotFoundIsNoOp ==
    (PassEnded /\ ~fetched.exists)
    => (result = "ok" /\ calls = <<>> /\ ~storeFailed /\ cr = fetched)

C12_Witness ==
    /\ PassEnded
    /\ ~fetched.exists
    /\ result = "ok"
    /\ calls = <<>>

\* C13: a pass that fetched the record in phase Created with no deletion
\* requested issues no create call and leaves phase and message as they
\* were; if the marker was already present it attempts no write at all.
C13_CreatedIsStable ==
    (passes > 0 /\ fetched.exists /\ fetched.state = Created /\ ~fetched.deletion)
    => /\ ~Called("create")
       /\ cr.state = Created
       /\ cr.message = fetched.message
       /\ HasMarker(fetched) => (HasMarker(cr) /\ ~storeFailed)

C13_Witness ==
    /\ PassEnded
    /\ passes >= 3
    /\ result = "ok"
    /\ fetched.state = Created
    /\ ~fetched.deletion
    /\ HasMarker(fetched)
    /\ calls = <<>>
    /\ cr = fetched

\* C14: a pass that fetched the record in phase Created with no deletion
\* requested and ran to its end has issued a remote update call.
C14_CreatedPassIssuesUpdate ==
    (/\ PassEnded
     /\ result = "ok"
     /\ fetched.exists
     /\ fetched.state = Created
     /\ ~fetched.deletion)
    => Called("update")

\* C15: a pass whose create call failed without a transport status code
\* returns failure and leaves the persisted phase as it was before the call.
C15_TransientCreateErrorNotClassified ==
    (PassEnded /\ ~fetched.deletion /\ createOutcome = "noresp")
    => (result = "err" /\ cr.state \in {fetched.state, Pending})

\* C16: once a store write of a pass has failed the pass is over with a
\* failure result, and nothing further is called or written before the next
\* pass starts.
C16_WriteFailureEndsPass ==
    /\ [](storeFailed => (pc = "idle" /\ result = "err"))
    /\ [][(storeFailed /\ passes' = passes)
             => (calls' = calls /\ cr'.state = cr.state /\ cr'.message = cr.message
                 /\ HasMarker(cr') = HasMarker(cr))]_vars

C16_Witness ==
    /\ storeFailed
    /\ createOutcome = "201"
    /\ remote = "own"
    /\ cr.state = Pending
    /\ pc = "idle"
    /\ result = "err"

\* The pass delivered last succeeded and left the record as it found it,
\* and nobody asked for deletion: no further event is due.
Settled ==
    /\ PassEnded
    /\ result = "ok"
    /\ cr.exists
    /\ ~cr.deletion
    /\ cr = fetched

\* C17: with no deletion requested the reconciler comes to rest only when
\* the remote project exists and the persisted phase is Created.
C17_RestsOnlyWhenCreated ==
    Settled => (remote # "none" /\ cr.state = Created)

Occurrences(slice, s) == Cardinality({i \in 1..Len(slice) : slice[i] = s})

\* C20: the persisted finalizer list holds the marker at most once, and a
\* finalizer step that finds nothing to do (marker present when adding,
\* absent when removing) ends the pass with success without any store write.
C20_FinalizerOpsIdempotent ==
    /\ [](Occurrences(cr.finalizers, SentryProjectFinalizer) <= 1)
    /\ [][(/\ pc' # pc
           /\ \/ pc = "l94" /\ AddsFinalizer(obj) /\ HasMarker(obj)
              \/ pc = "l107" /\ ~HasMarker(obj))
          => (cr' = cr /\ storeFailed' = FALSE /\ pc' = "idle" /\ result' = "ok")]_vars

C20_Witness ==
    /\ PassEnded
    /\ passes >= 2
    /\ result = "ok"
    /\ ~storeFailed
    /\ ~fetched.deletion
    /\ Occurrences(fetched.finalizers, SentryProjectFinalizer) = 1
    /\ cr.finalizers = fetched.finalizers

\* C19: once deletion is requested on a record that carries the marker,
\* the phase eventually is Deleted and the marker is gone.
C19_DeletionCompletes ==
    (cr.exists /\ cr.deletion /\ HasMarker(cr)) ~> (cr.state = Deleted /\ ~HasMarker(cr))

C19_Witness ==
    /\ PassEnded
    /\ passes >= 2
    /\ result = "ok"
    /\ fetched.deletion
    /\ HasMarker(fetched)
    /\ fetched.state = Deleted
    /\ calls = <<>>
    /\ cr.state = Deleted
    /\ ~HasMarker(cr)

====
